---- MODULE Spec2Model ----
(***************************************************************************)
(* Construction scheduler core (src/scheduling.py): CPM baseline,          *)
(* resource leveling, project metrics and the greedy capacity suggester.   *)
(*                                                                         *)
(* Times are whole hours.  A task is a record with the fields of the task  *)
(* schema of src/data_ingestion.py:155-166 that the scheduler reads.       *)
(* An optional number (duration_hours) is a sequence: << >> for None,      *)
(* <<d>> for the value d.  An optional string (crew_code, crew_category)   *)
(* is the string itself, None for an absent one.  Names are compared by    *)
(* their lexical rank, a number.  Task ids are the positions of the rows,  *)
(* as the ingestion numbers them (T0000, T0001, ...).                      *)
(***************************************************************************)
EXTENDS Integers, Sequences, FiniteSets, TLC

VARIABLES
    tasks,        \* the task list handed to the scheduler
    pc,           \* where the run is: "start", "baseline", "raised", ...
    base_info,    \* result of compute_cpm_baseline (<< >> before / on error)
    inp,          \* the scenario settings of the call in progress
    schedule,     \* result of level_resources (<< >> before)
    caps,         \* suggester: the current capacities
    curr_dur,     \* suggester: the current duration in days
    steps,        \* suggester: committed steps
    result,       \* suggester: the returned (caps, duration, steps)
    topo,         \* result of topological_order (<< >> before)
    pass          \* level_resources in progress: its locals (<< >> outside)

vars == <<tasks, pc, base_info, inp, schedule, caps, curr_dur, steps, result,
          topo, pass>>

sugg_vars == <<caps, curr_dur, steps, result>>

step_vars == <<topo, pass>>

None == "None"

(***************************************************************************)
(* Small helpers                                                           *)
(***************************************************************************)
Max2(a, b) == IF a >= b THEN a ELSE b

SetMax(S) == CHOOSE x \in S : \A y \in S : y <= x

SetMin(S) == CHOOSE x \in S : \A y \in S : x <= y

Abs(x) == IF x < 0 THEN -x ELSE x

Range(s) == {s[i] : i \in DOMAIN s}

Reverse(s) == [i \in 1..Len(s) |-> s[Len(s) + 1 - i]]

(***************************************************************************)
(* Task records                                                            *)
(***************************************************************************)
\* ids = [t["id"] for t in tasks]
task_ids(ts) == [i \in 1..Len(ts) |-> ts[i].id]

id_set(ts) == Range(task_ids(ts))

task_by_id(ts, tid) == ts[CHOOSE i \in 1..Len(ts) : ts[i].id = tid]

\* float(t["duration_hours"] or 0.0): None and 0 both give 0.0
duration_of(t) == IF t.duration_hours = << >> THEN 0 ELSE t.duration_hours[1]

\* a dependency filter that keeps the ids outside the task set
filter_deps_unfiltered(ts) ==
    [tid \in id_set(ts) |-> task_by_id(ts, tid).dependencies]

\* {t["id"]: set(d for d in t.get("dependencies", []) if d in id_set) ...}
filter_deps(ts) ==
    [tid \in id_set(ts) |->
        {d \in task_by_id(ts, tid).dependencies : d \in id_set(ts)}]

(***************************************************************************)
(* topological_order: Kahn's algorithm with a FIFO ready queue             *)
(***************************************************************************)
\* the inner "for v in ids" loop run for the popped task u, from position i
RECURSIVE release_successors(_, _, _, _)
release_successors(ids, i, u, st) ==
    IF i > Len(ids) THEN st
    ELSE LET v == ids[i] IN
         IF u \in st.deps_local[v]
         THEN LET dl  == [st.deps_local EXCEPT ![v] = @ \ {u}]
                  ind == [st.indeg EXCEPT ![v] = @ - 1]
                  q   == IF ind[v] = 0 THEN Append(st.q, v) ELSE st.q
              IN release_successors(ids, i + 1, u,
                                    [deps_local |-> dl, indeg |-> ind, q |-> q])
         ELSE release_successors(ids, i + 1, u, st)

\* the "while q" loop
RECURSIVE kahn_loop(_, _, _)
kahn_loop(ids, st, order) ==
    IF st.q = << >> THEN order
    ELSE LET u == Head(st.q) IN
         kahn_loop(ids,
                   release_successors(ids, 1, u, [st EXCEPT !.q = Tail(@)]),
                   Append(order, u))

\* an ordering that hands the ids back as they came
topological_order_as_given(ts, deps) == task_ids(ts)

topological_order(ts, deps) ==
    LET ids       == task_ids(ts)
        indeg     == [tid \in id_set(ts) |-> Cardinality(deps[tid])]
        q         == SelectSeq(ids, LAMBDA tid : indeg[tid] = 0)
        order     == kahn_loop(ids, [deps_local |-> deps, indeg |-> indeg, q |-> q],
                               << >>)
        remaining == SelectSeq(ids, LAMBDA tid : tid \notin Range(order))
    IN order \o remaining

(***************************************************************************)
(* compute_cpm_baseline                                                    *)
(***************************************************************************)
\* es = 0.0; if preds: es = max(info[p]["ef"] for p in preds)
forward_es(preds, ef) ==
    IF preds = {} THEN 0 ELSE SetMax({ef[p] : p \in preds})

\* The forward pass from position i of order.  acc.es / acc.ef hold the keys
\* set so far; reading info[p]["ef"] of a task not yet passed is a KeyError.
RECURSIVE forward_pass(_, _, _, _, _)
forward_pass(order, i, deps, dur, acc) ==
    IF i > Len(order) THEN acc
    ELSE LET tid   == order[i]
             preds == deps[tid]
         IN IF \E p \in preds : p \notin DOMAIN acc.ef
            THEN [acc EXCEPT !.raised = TRUE]
            ELSE LET es == forward_es(preds, acc.ef)
                     ef == es + dur[tid]
                 IN forward_pass(order, i + 1, deps, dur,
                        [acc EXCEPT !.es = (tid :> es) @@ @,
                                    !.ef = (tid :> ef) @@ @])

\* max((info[tid]["ef"] for tid in info), default=0.0)
project_finish(ef) ==
    IF DOMAIN ef = {} THEN 0 ELSE SetMax({ef[tid] : tid \in DOMAIN ef})

\* succs[d].add(v) for every v and every d in deps[v]
successors(ts, deps) ==
    [tid \in id_set(ts) |-> {v \in id_set(ts) : tid \in deps[v]}]

\* a backward pass that takes the latest successor start instead of the earliest
backward_lf_latest(succ, ls, proj_finish) ==
    IF succ = {} THEN proj_finish ELSE SetMax({ls[s] : s \in succ})

\* lf = proj_finish if not succs[tid] else min(info[s]["ls"] for s in succs[tid])
backward_lf(succ, ls, proj_finish) ==
    IF succ = {} THEN proj_finish ELSE SetMin({ls[s] : s \in succ})

\* max(0.0, ls - es)
slack_of(ls, es) == Max2(0, ls - es)

\* abs(slack) < 1e-9.  Slack is a whole number of hours here, and a whole
\* number is below 1e-9 in absolute value exactly when it is 0.
is_critical(slack) == Abs(slack) <= 0

\* The backward pass over reversed(order), from position i of rorder.
RECURSIVE backward_pass(_, _, _, _, _, _, _)
backward_pass(rorder, i, succs, dur, es, proj_finish, acc) ==
    IF i > Len(rorder) THEN acc
    ELSE LET tid == rorder[i] IN
         IF \E s \in succs[tid] : s \notin DOMAIN acc.ls
         THEN [acc EXCEPT !.raised = TRUE]
         ELSE LET lf == backward_lf(succs[tid], acc.ls, proj_finish)
                  ls == lf - dur[tid]
              IN backward_pass(rorder, i + 1, succs, dur, es, proj_finish,
                     [acc EXCEPT !.ls = (tid :> ls) @@ @,
                                 !.lf = (tid :> lf) @@ @])

\* Returns [raised |-> TRUE, info |-> << >>] when the call ends in a KeyError,
\* and [raised |-> FALSE, info |-> task_id -> {duration, es, ef, ls, lf,
\* slack, critical}] when it returns.
compute_cpm_baseline(ts) ==
    LET deps  == filter_deps(ts)
        dur   == [tid \in id_set(ts) |-> duration_of(task_by_id(ts, tid))]
        order == topological_order(ts, deps)
        fwd   == forward_pass(order, 1, deps, dur,
                              [raised |-> FALSE, es |-> << >>, ef |-> << >>])
    IN IF fwd.raised THEN [raised |-> TRUE, info |-> << >>]
       ELSE LET pf  == project_finish(fwd.ef)
                bwd == backward_pass(Reverse(order), 1, successors(ts, deps), dur,
                                     fwd.es, pf,
                                     [raised |-> FALSE, ls |-> << >>, lf |-> << >>])
            IN IF bwd.raised THEN [raised |-> TRUE, info |-> << >>]
               ELSE [raised |-> FALSE,
                     info |-> [tid \in id_set(ts) |->
                        [duration |-> dur[tid],
                         es       |-> fwd.es[tid],
                         ef       |-> fwd.ef[tid],
                         ls       |-> bwd.ls[tid],
                         lf       |-> bwd.lf[tid],
                         slack    |-> slack_of(bwd.ls[tid], fwd.es[tid]),
                         critical |-> is_critical(slack_of(bwd.ls[tid], fwd.es[tid]))]]]

(***************************************************************************)
(* level_resources                                                         *)
(***************************************************************************)
\* A dict with string keys (capacity_by_category) is the sequence of its
\* items [k, v] in insertion order.
dict_has(d, key) == \E i \in 1..Len(d) : d[i].k = key

\* d.get(key, default)
dict_get(d, key, default) ==
    IF dict_has(d, key) THEN d[CHOOSE i \in 1..Len(d) : d[i].k = key].v
    ELSE default

\* d[key] = value: a present key keeps its place, a new one goes last
dict_set(d, key, value) ==
    IF dict_has(d, key)
    THEN [i \in 1..Len(d) |-> IF d[i].k = key THEN [k |-> key, v |-> value] ELSE d[i]]
    ELSE Append(d, [k |-> key, v |-> value])

\* a sort key that puts the planned day first
sort_key_by_day(ts, base, tid) ==
    <<task_by_id(ts, tid).planned_day, base[tid].es, task_by_id(ts, tid).name>>

\* the sort key (base_info[t["id"]]["es"], t["planned_day"], t["name"])
sort_key(ts, base, tid) ==
    <<base[tid].es, task_by_id(ts, tid).planned_day, task_by_id(ts, tid).name>>

\* tuple comparison a <= b
key_le(a, b) ==
    \/ a[1] < b[1]
    \/ a[1] = b[1] /\ a[2] < b[2]
    \/ a[1] = b[1] /\ a[2] = b[2] /\ a[3] <= b[3]

\* sorted() is stable: x goes behind every element whose key is <= its own
RECURSIVE insert_sorted(_, _, _, _)
insert_sorted(ts, base, sorted, x) ==
    IF sorted = << >> THEN <<x>>
    ELSE IF key_le(sort_key(ts, base, Head(sorted)), sort_key(ts, base, x))
         THEN <<Head(sorted)>> \o insert_sorted(ts, base, Tail(sorted), x)
         ELSE <<x>> \o sorted

RECURSIVE sort_from(_, _, _, _)
sort_from(ts, base, i, sorted) ==
    IF i > Len(ts) THEN sorted
    ELSE sort_from(ts, base, i + 1, insert_sorted(ts, base, sorted, ts[i].id))

\* order = sorted(tasks, key=...), as the sequence of the task ids
sorted_order(ts, base) == sort_from(ts, base, 1, << >>)

\* the dependency-ready time: finish of a dependency scheduled in this pass,
\* baseline EF of one that is not yet; never before the task's own CPM ES
dependency_ready(ts, base, sched, tid) ==
    LET deps == {d \in task_by_id(ts, tid).dependencies : d \in id_set(ts)}
        ready == {IF d \in DOMAIN sched THEN sched[d].finish ELSE base[d].ef :
                    d \in {x \in deps : x \in DOMAIN sched \/ x \in DOMAIN base}}
        est == IF ready = {} THEN 0 ELSE Max2(0, SetMax(ready))
    IN Max2(est, base[tid].es)

\* a leveler that sends every task through the resource check
is_unconstrained_never(t) == FALSE

\* not t.get("crew_category") and not t.get("crew_code")
is_unconstrained(t) == t.crew_category = None /\ t.crew_code = None

\* t.get("crew_category") or "UNSPEC"
category_of(t) == IF t.crew_category = None THEN "UNSPEC" ELSE t.crew_category

\* t.get("crew_code") or "UNSPEC"
code_of(t) == IF t.crew_code = None THEN "UNSPEC" ELSE t.crew_code

\* max(1, int(capacity_by_category.get(cat, 1)))
capacity_of(capacity_by_category, cat) ==
    Max2(1, dict_get(capacity_by_category, cat, 1))

\* an active count over closed intervals
cat_active_at_closed(scheduled, cat, tp) ==
    Cardinality({i \in 1..Len(scheduled) :
        /\ scheduled[i].cat = cat
        /\ scheduled[i].start <= tp
        /\ tp <= scheduled[i].finish})

\* sum(1 for rec in scheduled if rec["cat"] == cat and rec["start"] < tp < rec["finish"])
cat_active_at(scheduled, cat, tp) ==
    Cardinality({i \in 1..Len(scheduled) :
        /\ scheduled[i].cat = cat
        /\ scheduled[i].start < tp
        /\ tp < scheduled[i].finish})

\* the loop test: dur > 0 and cat_active_at(start) >= cap
must_wait(scheduled, cat, cap, dur, start) ==
    dur > 0 /\ cat_active_at(scheduled, cat, start) >= cap

\* the loop body: finishes = [rec["finish"] ... if rec["cat"] == cat and
\* rec["finish"] > start]; start = min(finishes) if finishes else start
next_candidate(scheduled, cat, start) ==
    LET finishes == {scheduled[i].finish : i \in
                        {j \in 1..Len(scheduled) :
                            /\ scheduled[j].cat = cat
                            /\ scheduled[j].finish > start}}
    IN IF finishes # {} THEN SetMin(finishes) ELSE start

\* the admission loop: while dur > 0 and cat_active_at(start) >= cap: jump
RECURSIVE pooled_start(_, _, _, _, _)
pooled_start(scheduled, cat, cap, dur, start) ==
    IF must_wait(scheduled, cat, cap, dur, start)
    THEN pooled_start(scheduled, cat, cap, dur,
                      next_candidate(scheduled, cat, start))
    ELSE start

\* an exclusive start that forgets the crew's watermark
exclusive_start_ignores_busy(est, ready) == est

\* an exclusive start that forgets the dependency-ready time
exclusive_start_ignores_est(est, ready) == ready

\* start = max(est, ready)
exclusive_start(est, ready) == Max2(est, ready)

\* code_busy_until[code], a defaultdict(float)
busy_until(code_busy_until, code) ==
    IF code \in DOMAIN code_busy_until THEN code_busy_until[code] ELSE 0

\* The end of one iteration of "for t in order", from "finish = start + dur":
\* the entry of the task and the update of the pass's accumulators, acc:
\* schedule, scheduled (pooled mode), code_busy_until (exclusive mode).
record_entry(ts, base, pool_by_category, acc, tid, start) ==
    LET t   == task_by_id(ts, tid)
        dur == duration_of(t)
        finish == start + dur
        entry == [start |-> start, finish |-> finish, duration |-> dur,
                  crew_code |-> t.crew_code, crew_category |-> t.crew_category,
                  delay_vs_cpm_start |-> Max2(0, start - base[tid].es),
                  delay_vs_cpm_finish |-> Max2(0, finish - base[tid].ef)]
    IN [schedule |-> (tid :> entry) @@ acc.schedule,
        scheduled |->
            IF pool_by_category
            THEN Append(acc.scheduled,
                        [cat |-> category_of(t), start |-> start, finish |-> finish])
            ELSE acc.scheduled,
        code_busy_until |->
            IF pool_by_category THEN acc.code_busy_until
            ELSE (code_of(t) :> finish) @@ acc.code_busy_until]

\* One iteration of "for t in order".
level_task(ts, base, pool_by_category, capacity_by_category, acc, tid) ==
    LET t   == task_by_id(ts, tid)
        dur == duration_of(t)
        est == dependency_ready(ts, base, acc.schedule, tid)
        start ==
            IF is_unconstrained(t) THEN est
            ELSE IF pool_by_category
                 THEN pooled_start(acc.scheduled, category_of(t),
                                   capacity_of(capacity_by_category, category_of(t)),
                                   dur, est)
                 ELSE exclusive_start(est, busy_until(acc.code_busy_until, code_of(t)))
    IN record_entry(ts, base, pool_by_category, acc, tid, start)

RECURSIVE level_from(_, _, _, _, _, _, _)
level_from(ts, base, pool_by_category, capacity_by_category, order, i, acc) ==
    IF i > Len(order) THEN acc
    ELSE level_from(ts, base, pool_by_category, capacity_by_category, order, i + 1,
                    level_task(ts, base, pool_by_category, capacity_by_category,
                               acc, order[i]))

\* Returns the schedule: task_id -> entry.
level_resources(ts, base, pool_by_category, capacity_by_category) ==
    level_from(ts, base, pool_by_category, capacity_by_category,
               sorted_order(ts, base), 1,
               [schedule |-> << >>, scheduled |-> << >>,
                code_busy_until |-> << >>]).schedule

(***************************************************************************)
(* compute_project_metrics                                                 *)
(***************************************************************************)
\* A number of days is the fraction num / den of hours over hours per day.
\* proj_finish_hours / max(1.0, hours_per_day); 0.0 for an empty schedule
compute_project_metrics(sched, hours_per_day) ==
    IF DOMAIN sched = {} THEN [num |-> 0, den |-> 1]
    ELSE [num |-> SetMax({sched[tid].finish : tid \in DOMAIN sched}),
          den |-> Max2(1, hours_per_day)]

(***************************************************************************)
(* suggest_capacities_to_hit_target                                        *)
(***************************************************************************)
\* comparisons of days, fractions num / den with den > 0
rat_lt(a, b) == a.num * b.den < b.num * a.den

rat_le(a, b) == a.num * b.den <= b.num * a.den

\* a - b
rat_sub(a, b) == [num |-> a.num * b.den - b.num * a.den, den |-> a.den * b.den]

\* a whole number of days
days(n) == [num |-> n, den |-> 1]

\* 1e-6
Epsilon == [num |-> 1, den |-> 1000000]

\* a normalisation that caps every capacity at 1
normalize_caps_min(initial_caps) ==
    [i \in 1..Len(initial_caps) |->
        [k |-> initial_caps[i].k,
         v |-> IF initial_caps[i].v <= 1 THEN initial_caps[i].v ELSE 1]]

\* caps = {k: max(1, int(v)) for k, v in initial_caps.items()}
normalize_caps(initial_caps) ==
    [i \in 1..Len(initial_caps) |->
        [k |-> initial_caps[i].k, v |-> Max2(1, initial_caps[i].v)]]

\* set([t.get("crew_category") for t in tasks if t.get("crew_category")])
task_categories(ts) ==
    {ts[i].crew_category : i \in {j \in 1..Len(ts) : ts[j].crew_category # None}}

\* for c in cats: caps.setdefault(c, 1), cats taken in the order cat_order
RECURSIVE set_defaults(_, _, _)
set_defaults(d, cat_order, i) ==
    IF i > Len(cat_order) THEN d
    ELSE set_defaults(IF dict_has(d, cat_order[i]) THEN d
                      ELSE dict_set(d, cat_order[i], 1),
                      cat_order, i + 1)

\* the orders in which a set can be iterated
iteration_orders(S) ==
    {q \in [1..Cardinality(S) -> S] : \A i, j \in DOMAIN q : i # j => q[i] # q[j]}

\* duration_with(caps_in): one pooled leveling pass and its duration in days
duration_with(ts, base, hours_per_day, caps_in) ==
    compute_project_metrics(level_resources(ts, base, TRUE, caps_in), hours_per_day)

\* trial = deepcopy(caps); trial[c] = trial[c] + 1
trial_caps(d, c) == dict_set(d, c, dict_get(d, c, 0) + 1)

\* a trial loop where a later trial replaces the best one on a tie as well
RECURSIVE best_trial_last(_, _, _, _, _, _, _)
best_trial_last(ts, base, hours_per_day, d, cur, i, best) ==
    IF i > Len(d) THEN best
    ELSE LET c     == d[i].k
             trial == dict_set(d, c, dict_get(d, c, 0) + 1)
             dur   == compute_project_metrics(
                          level_resources(ts, base, TRUE, trial), hours_per_day)
             imp   == [num |-> cur.num * dur.den - dur.num * cur.den,
                       den |-> cur.den * dur.den]
             cand  == <<[improvement |-> imp, c |-> c, d |-> dur, trial |-> trial]>>
         IN best_trial_last(ts, base, hours_per_day, d, cur, i + 1,
                IF best = << >> THEN cand
                ELSE IF best[1].improvement.num * imp.den
                            <= imp.num * best[1].improvement.den
                     THEN cand
                     ELSE best)

\* The "for c in caps" loop from position i: best is << >> for None, else
\* <<[improvement, c, d, trial]>>; a later trial replaces it only when its
\* improvement is strictly greater.
RECURSIVE best_trial(_, _, _, _, _, _, _)
best_trial(ts, base, hours_per_day, d, cur, i, best) ==
    IF i > Len(d) THEN best
    ELSE LET c     == d[i].k
             trial == trial_caps(d, c)
             dur   == duration_with(ts, base, hours_per_day, trial)
             imp   == rat_sub(cur, dur)
             cand  == <<[improvement |-> imp, c |-> c, d |-> dur, trial |-> trial]>>
         IN best_trial(ts, base, hours_per_day, d, cur, i + 1,
                       IF best = << >> THEN cand
                       ELSE IF rat_lt(best[1].improvement, imp) THEN cand
                       ELSE best)

\* a stopping rule that stops only when the best trial is worse
no_progress_if_worse(best) ==
    IF best = << >> THEN TRUE ELSE rat_lt(best[1].improvement, days(0))

\* if not best or best[0] <= 1e-6: break
no_progress(best) ==
    IF best = << >> THEN TRUE ELSE rat_le(best[1].improvement, Epsilon)

\* a loop test that forgets the step budget
search_continues_no_budget(cur, target_days, n, max_steps) ==
    cur.num > target_days * cur.den

\* while curr_dur > target_days and steps < max_steps
search_continues(cur, target_days, n, max_steps) ==
    rat_lt(days(target_days), cur) /\ n < max_steps

(***************************************************************************)
(* Inputs                                                                  *)
(***************************************************************************)
\* the rows of the working set
Rows == {1, 2, 3}

\* an id no row of the working set carries (a row filtered away)
OutsideId == 9

\* most entries in one task's dependency list
MaxDeps == 2

\* duration_hours: absent, half a working day, a working day
Durations == {<< >>, <<4>>, <<8>>}

MkTask(i, dur, deps, code, cat, day, nm) ==
    [id |-> i, name |-> nm, planned_day |-> day, duration_hours |-> dur,
     crew_code |-> code, crew_category |-> cat, dependencies |-> deps]

\* Task sets for the CPM calculator: any dependency lists (cycles, self
\* references and ids outside the set included), no crews.
CpmTaskSets ==
    {[i \in Rows |-> MkTask(i, dur[i], deps[i], None, None, 1, i)] :
        dur \in [Rows -> Durations],
        deps \in [Rows -> {D \in SUBSET (Rows \cup {OutsideId}) :
                                Cardinality(D) <= MaxDeps}]}

InitCpm ==
    /\ tasks \in CpmTaskSets
    /\ pc = "start"
    /\ base_info = << >>
    /\ inp = << >>
    /\ schedule = << >>
    /\ caps = << >>
    /\ curr_dur = days(0)
    /\ steps = 0
    /\ result = << >>
    /\ topo = << >>
    /\ pass = << >>

\* base = compute_cpm_baseline(f_tasks)
ComputeBaseline ==
    /\ pc = "start"
    /\ LET r == compute_cpm_baseline(tasks) IN
        /\ pc' = IF r.raised THEN "raised" ELSE "baseline"
        /\ base_info' = r.info
    /\ UNCHANGED <<tasks, inp, schedule, sugg_vars, step_vars>>

NextCpm == ComputeBaseline

SpecCpm == InitCpm /\ [][NextCpm]_vars

\* crew identifiers of a task, <<crew_code, crew_category>>: none at all, a
\* crew of category c1, a crew without a category, a category without a crew
CrewProfiles ==
    {<<None, None>>, <<"k1", "c1">>, <<"k1", None>>, <<None, "c1">>, <<None, "c2">>}

\* most crews of one category
MaxCap == 2

\* capacity maps for the leveler: an entry for c1, none for c2
CapacityMaps == {<<[k |-> "c1", v |-> n]>> : n \in 1..MaxCap}

\* planned_day of the three rows: one day, or the rows in reverse day order
PlannedDays == {<<1, 1, 1>>, <<3, 2, 1>>}

\* dependency lists that name earlier rows only (no cycle)
ForwardDeps == {deps \in [Rows -> SUBSET Rows] : \A i \in Rows : \A d \in deps[i] : d < i}

\* the three-task scenario: A (8h), B and C (4h, 2h) after A, one category
ScenarioTasks ==
    <<MkTask(1, <<8>>, {}, None, "c1", 1, 1),
      MkTask(2, <<4>>, {1}, None, "c1", 1, 2),
      MkTask(3, <<2>>, {1}, None, "c1", 1, 3)>>

\* Task sets for the leveler: acyclic, with crews.
LevelTaskSets ==
    {[i \in Rows |-> MkTask(i, dur[i], deps[i], crew[i][1], crew[i][2], day[i], i)] :
        dur \in [Rows -> Durations], deps \in ForwardDeps,
        crew \in [Rows -> CrewProfiles], day \in PlannedDays}
    \cup {ScenarioTasks}

InitLevel ==
    /\ tasks \in LevelTaskSets
    /\ pc = "start"
    /\ base_info = << >>
    /\ inp = << >>
    /\ schedule = << >>
    /\ caps = << >>
    /\ curr_dur = days(0)
    /\ steps = 0
    /\ result = << >>
    /\ topo = << >>
    /\ pass = << >>

\* schedule = level_resources(f_tasks, base, pool_by_category=pool_by_cat,
\*     capacity_by_category=(capacity_by_category if pool_by_cat else {}))
LevelPooled ==
    /\ pc = "baseline"
    /\ \E cm \in CapacityMaps :
        /\ inp' = [pool_by_category |-> TRUE, capacity_by_category |-> cm]
        /\ schedule' = level_resources(tasks, base_info, TRUE, cm)
    /\ pc' = "leveled"
    /\ UNCHANGED <<tasks, base_info, sugg_vars, step_vars>>

LevelExclusive ==
    /\ pc = "baseline"
    /\ inp' = [pool_by_category |-> FALSE, capacity_by_category |-> << >>]
    /\ schedule' = level_resources(tasks, base_info, FALSE, << >>)
    /\ pc' = "leveled"
    /\ UNCHANGED <<tasks, base_info, sugg_vars, step_vars>>

NextLevel == ComputeBaseline \/ LevelPooled \/ LevelExclusive

SpecLevel == InitLevel /\ [][NextLevel]_vars

\* hours_per_day: the two choices of the control surface
HoursPerDay == {7, 8}

\* most days of a target duration (at least 1)
MaxTarget == 2

\* max_steps of suggest_capacities_to_hit_target when the caller gives none
DefaultMaxSteps == 30

StepBudgets == {1, DefaultMaxSteps}

\* initial capacities: none, or an entry for each of the two categories
InitialCapacityMaps ==
    {<< >>} \cup {<<[k |-> "c1", v |-> n], [k |-> "c2", v |-> 1]>> : n \in 1..MaxCap}

\* five tasks where each of two categories holds a task back: after P, Y1
\* waits for X1's crew and Y2 for X2's
TwoCategoryTasks ==
    <<MkTask(1, <<4>>, {}, None, None, 1, 1),
      MkTask(2, <<8>>, {}, None, "c1", 1, 2),
      MkTask(3, <<8>>, {1}, None, "c1", 1, 3),
      MkTask(4, <<8>>, {}, None, "c2", 1, 4),
      MkTask(5, <<6>>, {1}, None, "c2", 1, 5)>>

\* six tasks where one more crew of either category saves the same 2 h: Z
\* waits for X2's crew because Y1 waited for X1's
TieTasks ==
    <<MkTask(1, <<8>>, {}, None, "c1", 1, 1),
      MkTask(2, <<4>>, {}, None, None, 1, 2),
      MkTask(3, <<2>>, {}, None, None, 1, 3),
      MkTask(4, <<2>>, {3}, None, "c1", 1, 4),
      MkTask(5, <<8>>, {2}, None, "c2", 1, 5),
      MkTask(6, <<2>>, {4}, None, "c2", 1, 6)>>

\* Task sets for the suggester: acyclic, a category or no crew, real work.
SuggestTaskSets ==
    {[i \in Rows |-> MkTask(i, dur[i], deps[i], None, cat[i], 1, i)] :
        dur \in [Rows -> {<<4>>, <<8>>}], deps \in ForwardDeps,
        cat \in [Rows -> {None, "c1", "c2"}]}
    \cup {TwoCategoryTasks, TieTasks}

InitSuggest ==
    /\ tasks \in SuggestTaskSets
    /\ pc = "baseline"
    /\ base_info = compute_cpm_baseline(tasks).info
    /\ inp = << >>
    /\ schedule = << >>
    /\ caps = << >>
    /\ curr_dur = days(0)
    /\ steps = 0
    /\ result = << >>
    /\ topo = << >>
    /\ pass = << >>

SuggestInputs(pool) ==
    [pool_by_category : {pool}, initial_caps : InitialCapacityMaps,
     hours_per_day : HoursPerDay, target_days : 1..MaxTarget,
     max_steps : StepBudgets]

\* the call with pooling disabled: one exclusive pass, then return
SuggestExclusive ==
    /\ pc = "baseline"
    /\ \E in \in SuggestInputs(FALSE) :
        /\ inp' = in
        /\ caps' = normalize_caps(in.initial_caps)
        /\ result' =
            [caps  |-> caps',
             dur   |-> compute_project_metrics(
                           level_resources(tasks, base_info, FALSE, << >>),
                           in.hours_per_day),
             steps |-> 0]
    /\ pc' = "returned"
    /\ UNCHANGED <<tasks, base_info, schedule, curr_dur, steps, step_vars>>

\* the call with pooling enabled, up to the first test of the while loop
SuggestPooled ==
    /\ pc = "baseline"
    /\ \E in \in SuggestInputs(TRUE) :
        \E cat_order \in iteration_orders(task_categories(tasks)) :
            /\ inp' = in
            /\ caps' = set_defaults(normalize_caps(in.initial_caps), cat_order, 1)
            /\ curr_dur' = duration_with(tasks, base_info, in.hours_per_day, caps')
    /\ steps' = 0
    /\ pc' = "searching"
    /\ UNCHANGED <<tasks, base_info, schedule, result, step_vars>>

BestTrial ==
    best_trial(tasks, base_info, inp.hours_per_day, caps, curr_dur, 1, << >>)

\* one iteration of the while loop that commits the best trial
SearchCommit ==
    /\ pc = "searching"
    /\ search_continues(curr_dur, inp.target_days, steps, inp.max_steps)
    /\ ~no_progress(BestTrial)
    /\ caps' = BestTrial[1].trial
    /\ curr_dur' = BestTrial[1].d
    /\ steps' = steps + 1
    /\ UNCHANGED <<tasks, pc, base_info, inp, schedule, result, step_vars>>

\* the iteration that finds no progress: break, return
SearchBreak ==
    /\ pc = "searching"
    /\ search_continues(curr_dur, inp.target_days, steps, inp.max_steps)
    /\ no_progress(BestTrial)
    /\ result' = [caps |-> caps, dur |-> curr_dur, steps |-> steps]
    /\ pc' = "returned"
    /\ UNCHANGED <<tasks, base_info, inp, schedule, caps, curr_dur, steps, step_vars>>

\* the while condition fails: return
SearchExit ==
    /\ pc = "searching"
    /\ ~search_continues(curr_dur, inp.target_days, steps, inp.max_steps)
    /\ result' = [caps |-> caps, dur |-> curr_dur, steps |-> steps]
    /\ pc' = "returned"
    /\ UNCHANGED <<tasks, base_info, inp, schedule, caps, curr_dur, steps, step_vars>>

NextSuggest ==
    SuggestExclusive \/ SuggestPooled \/ SearchCommit \/ SearchBreak \/ SearchExit

SpecSuggest == InitSuggest /\ [][NextSuggest]_vars

(***************************************************************************)
(* Properties of the CPM calculator                                        *)
(***************************************************************************)
InSetDeps(tid) == task_by_id(tasks, tid).dependencies \cap id_set(tasks)

InSetSuccs(tid) == {v \in id_set(tasks) : tid \in InSetDeps(v)}

\* some non-empty set of tasks each of which depends on a member of the set
HasCycle ==
    \E S \in (SUBSET id_set(tasks)) \ {{}} :
        \A t \in S : InSetDeps(t) \cap S # {}

BaselineCalled == pc \in {"baseline", "raised"}

\* C5: when the in-set dependencies contain a cycle (a self-dependency
\* included), compute_cpm_baseline raises no error and returns a mapping with
\* an entry for every task.
C5_CyclicBaselineReturns ==
    (BaselineCalled /\ HasCycle) =>
        (pc = "baseline" /\ DOMAIN base_info = id_set(tasks))

\* C6: for an acyclic task set the baseline returns, ES is 0 for a task with
\* no dependency inside the set and the largest EF of its in-set dependencies
\* otherwise, and EF = ES + duration with an absent duration taken as 0.
C6_ForwardPass ==
    (BaselineCalled /\ ~HasCycle) =>
        /\ pc = "baseline"
        /\ \A tid \in id_set(tasks) :
            LET t == task_by_id(tasks, tid)
                d == IF t.duration_hours = << >> THEN 0 ELSE t.duration_hours[1]
            IN /\ base_info[tid].es =
                    IF InSetDeps(tid) = {} THEN 0
                    ELSE SetMax({base_info[p].ef : p \in InSetDeps(tid)})
               /\ base_info[tid].ef = base_info[tid].es + d

\* an acyclic set where a task with an outside and an in-set dependency starts
\* late, a task with only an outside dependency starts at 0, and a duration is absent
C6_Witness ==
    /\ pc = "baseline"
    /\ \E a, b, c \in id_set(tasks) :
        /\ OutsideId \in tasks[a].dependencies
        /\ InSetDeps(a) # {}
        /\ base_info[a].es > 0
        /\ tasks[b].dependencies = {OutsideId}
        /\ base_info[b].es = 0
        /\ tasks[c].duration_hours = << >>
        /\ base_info[c].ef = base_info[c].es

\* C7: for an acyclic task set LF is the smallest LS of the in-set successors,
\* or the project finish (largest EF) without successors; LS = LF - duration;
\* slack = max(0, LS - ES) and is never negative; critical iff slack < 1e-9
\* (slack is a whole number of hours: iff slack < 1).
C7_BackwardPass ==
    (pc = "baseline" /\ ~HasCycle) =>
        \A tid \in id_set(tasks) :
            LET b  == base_info[tid]
                pf == SetMax({base_info[x].ef : x \in id_set(tasks)})
            IN /\ b.lf = IF InSetSuccs(tid) = {} THEN pf
                          ELSE SetMin({base_info[s].ls : s \in InSetSuccs(tid)})
               /\ b.ls = b.lf - b.duration
               /\ b.slack = Max2(0, b.ls - b.es)
               /\ b.slack >= 0
               /\ b.critical <=> (b.slack < 1)

\* an acyclic set with a critical task that has two successors, whose latest
\* starts differ, and a task with positive slack
C7_Witness ==
    /\ pc = "baseline"
    /\ \E a, b, c \in id_set(tasks) :
        /\ InSetSuccs(a) = {b, c}
        /\ base_info[b].ls < base_info[c].ls
        /\ base_info[a].critical
        /\ base_info[c].slack > 0
        /\ ~base_info[c].critical

(***************************************************************************)
(* Properties of the leveler                                               *)
(***************************************************************************)
Leveled == pc = "leveled"

Pooled == Leveled /\ inp.pool_by_category

Exclusive == Leveled /\ ~inp.pool_by_category

\* position of a task in the processing order of the pass
Pos(tid) ==
    LET order == sorted_order(tasks, base_info)
    IN CHOOSE i \in 1..Len(order) : order[i] = tid

\* the open intervals of two tasks share an instant
Overlap(a, b) ==
    Max2(schedule[a].start, schedule[b].start)
        < SetMin({schedule[a].finish, schedule[b].finish})

\* number of tasks of a category at work during the hour (h, h + 1)
ActiveDuring(cat, h) ==
    Cardinality({tid \in id_set(tasks) :
        /\ tasks[tid].crew_category = cat
        /\ schedule[tid].start <= h
        /\ h + 1 <= schedule[tid].finish})

LastFinish == SetMax({schedule[tid].finish : tid \in id_set(tasks)})

\* C1: in pooled mode, for every crew category with capacity C, at no instant
\* are more than C scheduled intervals of the category active (open
\* intervals: touching endpoints are no overlap).
C1_PooledCapacity ==
    Pooled =>
        \A cat \in {tasks[tid].crew_category : tid \in id_set(tasks)} \ {None} :
            \A h \in 0..LastFinish :
                ActiveDuring(cat, h)
                    <= Max2(1, dict_get(inp.capacity_by_category, cat, 1))

\* C2: the three-task scenario with capacity 1 levels to A = (0, 8),
\* B = (8, 12), C = (12, 14): the latest finish is 14 h and C starts 4 h
\* after its baseline ES.
C2_ScenarioSerialized ==
    (Pooled /\ tasks = ScenarioTasks
        /\ dict_get(inp.capacity_by_category, "c1", 1) = 1) =>
        /\ schedule[1].start = 0 /\ schedule[1].finish = 8
        /\ schedule[2].start = 8 /\ schedule[2].finish = 12
        /\ schedule[3].start = 12 /\ schedule[3].finish = 14
        /\ LastFinish = 14
        /\ schedule[3].delay_vs_cpm_start = 4

\* C3: in either mode every leveled start is at least the task's baseline ES,
\* and both delays are non-negative.
C3_NotBeforeBaseline ==
    Leveled =>
        \A tid \in id_set(tasks) :
            /\ schedule[tid].start >= base_info[tid].es
            /\ schedule[tid].delay_vs_cpm_start >= 0
            /\ schedule[tid].delay_vs_cpm_finish >= 0

\* an exclusive pass where a task whose baseline ES is past 0 waits for its crew
C3_Witness ==
    /\ Exclusive
    /\ \E tid \in id_set(tasks) :
        /\ base_info[tid].es > 0
        /\ schedule[tid].start > base_info[tid].es
        /\ schedule[tid].delay_vs_cpm_start = schedule[tid].start - base_info[tid].es

Unconstrained(tid) ==
    tasks[tid].crew_code = None /\ tasks[tid].crew_category = None

\* C4 as stated: a task with neither a crew code nor a crew category starts
\* at its baseline ES whatever the others do.
C4_UnconstrainedAtBaseline ==
    Leveled =>
        \A tid \in id_set(tasks) :
            Unconstrained(tid) => schedule[tid].start = base_info[tid].es

\* the dependency-ready time read off the finished schedule
ReadyTime(tid) ==
    SetMax({base_info[tid].es} \cup
           {IF Pos(d) < Pos(tid) THEN schedule[d].finish ELSE base_info[d].ef :
                d \in InSetDeps(tid)})

\* C4 amended: a task with neither a crew code nor a crew category waits for
\* no resource: it starts at its dependency-ready time (the later of its
\* baseline ES and the finishes of its in-set dependencies), hence at its
\* baseline ES unless a dependency finishes later than that.
C4_UnconstrainedWhenReady ==
    Leveled =>
        \A tid \in id_set(tasks) :
            Unconstrained(tid) =>
                /\ schedule[tid].start = ReadyTime(tid)
                /\ (\A d \in InSetDeps(tid) :
                        schedule[d].finish <= base_info[tid].es)
                    => schedule[tid].start = base_info[tid].es

\* a pass where two other tasks contend and one is delayed, while a task
\* without crew identifiers and with a positive baseline ES starts at it
C4_Witness ==
    /\ Leveled
    /\ \E tid, a, b \in id_set(tasks) :
        /\ Unconstrained(tid)
        /\ base_info[tid].es > 0
        /\ schedule[tid].start = base_info[tid].es
        /\ a # tid /\ b # tid /\ a # b
        /\ schedule[b].delay_vs_cpm_start > 0

Returned == pc = "returned"

\* C9: with pooling disabled the suggester searches nothing: it returns 0
\* steps, the duration of one exclusive-mode leveling pass, and the input
\* capacities unmodified.
C9_NoSearchWithoutPooling ==
    (Returned /\ ~inp.pool_by_category) =>
        /\ result.steps = 0
        /\ result.caps = inp.initial_caps
        /\ result.dur =
            compute_project_metrics(
                level_resources(tasks, base_info, FALSE, << >>), inp.hours_per_day)

\* a return without pooling, with a capacity above 1 given, a target below
\* the duration and two tasks that waited for one another
C9_Witness ==
    /\ Returned /\ ~inp.pool_by_category
    /\ dict_get(inp.initial_caps, "c1", 1) > 1
    /\ rat_lt(days(inp.target_days), result.dur)
    /\ result.dur.num >
        SetMax({base_info[tid].ef : tid \in id_set(tasks)})

\* C10: in a pooled search every committed step lowers curr_dur strictly; a
\* step that would not lower it changes neither curr_dur nor the capacities
\* nor the step count.
C10_StrictlyDecreasing ==
    [][pc = "searching" =>
        /\ steps' = steps + 1 => rat_lt(curr_dur', curr_dur)
        /\ ~rat_lt(curr_dur', curr_dur) =>
            (steps' = steps /\ caps' = caps /\ curr_dur' = curr_dur)]_vars

\* a search that has committed two steps and now stands at a shorter
\* duration than the one it started from
C10_Witness ==
    /\ pc = "searching"
    /\ steps >= 2
    /\ \E cat_order \in iteration_orders(task_categories(tasks)) :
        rat_lt(curr_dur,
               duration_with(tasks, base_info, inp.hours_per_day,
                   set_defaults(normalize_caps(inp.initial_caps), cat_order, 1)))

(***************************************************************************)
(* Properties of the leveler: precedence and the exclusive identifier      *)
(***************************************************************************)
\* C11: in every returned schedule (either mode, acyclic tasks) each task
\* starts no earlier than the leveled finish of each of its in-set
\* dependencies, a dependency processed after it (a tie on baseline ES)
\* included.
C11_DependencyPrecedence ==
    Leveled =>
        \A tid \in id_set(tasks) :
            \A d \in InSetDeps(tid) :
                schedule[tid].start >= schedule[d].finish

\* the tasks without a crew code that share b's category and come before it
SameCategoryBefore(b) ==
    {a \in id_set(tasks) :
        /\ tasks[a].crew_code = None
        /\ tasks[a].crew_category = tasks[b].crew_category
        /\ Pos(a) < Pos(b)}

\* C15: in exclusive mode a task with a crew category and no crew code is
\* serialized on its category only: it starts at the later of its
\* dependency-ready time and the finishes of the earlier code-less tasks of
\* its category, so a code-less task of another category, or a task with
\* neither identifier, never delays it.
C15_CategoryIdentifier ==
    Exclusive =>
        \A b \in id_set(tasks) :
            (tasks[b].crew_code = None /\ tasks[b].crew_category # None) =>
                schedule[b].start =
                    SetMax({ReadyTime(b)} \cup
                           {schedule[a].finish : a \in SameCategoryBefore(b)})

(***************************************************************************)
(* topological_order on its own                                            *)
(***************************************************************************)
\* order = topological_order(tasks): deps is None, so the function filters
\* the dependencies to the ids of the set itself
TopologicalOrder ==
    /\ pc = "start"
    /\ topo' = topological_order(tasks, filter_deps(tasks))
    /\ pc' = "ordered"
    /\ UNCHANGED <<tasks, base_info, inp, schedule, sugg_vars, pass>>

NextTopo == TopologicalOrder

SpecTopo == InitCpm /\ [][NextTopo]_vars

Ordered == pc = "ordered"

\* the tasks that never reach in-degree zero: the largest set of tasks each
\* of which depends on a member of the set
Stuck ==
    UNION {S \in SUBSET id_set(tasks) : \A t \in S : InSetDeps(t) \cap S # {}}

\* C12: topological_order returns every task id exactly once; for an acyclic
\* in-set dependency graph every task comes after all its in-set
\* dependencies; for a cyclic one the tasks that never reach in-degree zero
\* come after all the tasks that did, in input order.
C12_TopologicalOrder ==
    Ordered =>
        /\ Len(topo) = Len(tasks)
        /\ Range(topo) = id_set(tasks)
        /\ ~HasCycle =>
                \A i, j \in 1..Len(topo) :
                    topo[j] \in InSetDeps(topo[i]) => j < i
        /\ HasCycle =>
                LET n == Len(topo) - Cardinality(Stuck) IN
                /\ \A i \in 1..n : topo[i] \notin Stuck
                /\ \A i, j \in 1..n :
                        topo[j] \in InSetDeps(topo[i]) => j < i
                /\ SubSeq(topo, n + 1, Len(topo)) =
                        SelectSeq(task_ids(tasks), LAMBDA t : t \in Stuck)

\* a cyclic set where the one task that reaches in-degree zero comes last in
\* the input and first in the order, ahead of a cycle and of a task behind it
C12_Witness ==
    /\ Ordered
    /\ HasCycle
    /\ Cardinality(Stuck) = 2
    /\ topo[1] = tasks[Len(tasks)].id
    /\ \E t \in Stuck : InSetDeps(t) = {t}

(***************************************************************************)
(* Properties of the capacity suggester: the search step and its end       *)
(***************************************************************************)
\* the capacities d with the i-th category raised by one
PlusOne(d, i) ==
    [j \in 1..Len(d) |-> IF j = i THEN [k |-> d[j].k, v |-> d[j].v + 1] ELSE d[j]]

\* what one more crew of the i-th category of d saves on the duration cur
Improvement(d, cur, i) ==
    LET dur == compute_project_metrics(
                   level_resources(tasks, base_info, TRUE, PlusOne(d, i)),
                   inp.hours_per_day)
    IN [num |-> cur.num * dur.den - dur.num * cur.den, den |-> cur.den * dur.den]

\* a greater than b, for fractions with positive denominators
Greater(a, b) == a.num * b.den > b.num * a.den

\* the categories of d whose trial attains the largest improvement
BestCategories(d, cur) ==
    {i \in 1..Len(d) :
        \A j \in 1..Len(d) : ~Greater(Improvement(d, cur, j), Improvement(d, cur, i))}

InSearchStep ==
    /\ pc = "searching"
    /\ Greater(curr_dur, [num |-> inp.target_days, den |-> 1])
    /\ steps < inp.max_steps

\* C13: in each search step every category's +1 trial is taken from the
\* same current capacities, and the committed category is the first one in
\* the capacity map's order whose trial attains the largest improvement; the
\* step is committed only if that improvement exceeds 1e-6, otherwise the
\* search stops with capacities and duration unchanged.
C13_GreedyStep ==
    [][InSearchStep =>
        LET best  == BestCategories(caps, curr_dur)
            first == IF best = {} THEN 0 ELSE SetMin(best)
        IN IF first # 0 /\ Greater(Improvement(caps, curr_dur, first),
                                   [num |-> 1, den |-> 1000000])
           THEN /\ pc' = "searching"
                /\ caps' = PlusOne(caps, first)
                /\ curr_dur' =
                       compute_project_metrics(
                           level_resources(tasks, base_info, TRUE, caps'),
                           inp.hours_per_day)
                /\ steps' = steps + 1
           ELSE /\ pc' = "returned"
                /\ caps' = caps /\ curr_dur' = curr_dur /\ steps' = steps
                /\ result' = [caps |-> caps, dur |-> curr_dur, steps |-> steps]
    ]_vars

\* a search whose first step found two categories saving the same positive
\* time and committed the first of them
C13_Witness ==
    /\ pc = "searching"
    /\ steps = 1
    /\ Len(caps) = 2
    /\ \E i \in 1..2 :
        LET prev == [j \in 1..2 |->
                        IF j = i THEN [k |-> caps[j].k, v |-> caps[j].v - 1]
                        ELSE caps[j]]
            was  == compute_project_metrics(
                        level_resources(tasks, base_info, TRUE, prev),
                        inp.hours_per_day)
        IN /\ prev[i].v >= 1
           /\ BestCategories(prev, was) = {1, 2}
           /\ i = 1
           /\ Greater(Improvement(prev, was, 1), [num |-> 0, den |-> 1])

\* C14: with pooling enabled the suggester always terminates with
\* steps_taken <= max_steps: every iteration of the loop either returns or
\* raises the step count by one, and the count never passes max_steps.  On
\* return the duration is at most the target, or steps_taken = max_steps, or
\* no single-category +1 increment of the returned capacities lowers the
\* duration by more than 1e-6.
C14_SearchEnds ==
    [][pc = "searching" =>
        /\ steps <= inp.max_steps
        /\ \/ /\ pc' = "searching"
              /\ steps' = steps + 1
              /\ steps' <= inp.max_steps
           \/ /\ pc' = "returned"
              /\ result'.steps = steps
              /\ result'.steps <= inp.max_steps
              /\ \/ ~Greater(result'.dur, [num |-> inp.target_days, den |-> 1])
                 \/ result'.steps = inp.max_steps
                 \/ \A i \in 1..Len(result'.caps) :
                      ~Greater(Improvement(result'.caps, result'.dur, i),
                               [num |-> 1, den |-> 1000000])
    ]_vars

\* a return forced by the step budget: the duration is above the target and
\* one more crew of some category would still shorten it
C14_Witness ==
    /\ Returned /\ inp.pool_by_category
    /\ result.steps = inp.max_steps
    /\ Greater(result.dur, [num |-> inp.target_days, den |-> 1])
    /\ \E i \in 1..Len(result.caps) :
            Greater(Improvement(result.caps, result.dur, i),
                    [num |-> 1, den |-> 1000000])

(***************************************************************************)
(* level_resources step by step: one action per iteration of its loops     *)
(***************************************************************************)
\* crew identifiers of a task in the stepwise pass: none, a crew code, a
\* category
PassProfiles == {<<None, None>>, <<"k1", None>>, <<None, "c1">>}

\* four tasks of which the last, ready at 2, finds both crews' intervals
\* (0, 4) and (0, 8) in its way
AdmissionTasks ==
    <<MkTask(1, <<4>>, {}, None, "c1", 1, 1),
      MkTask(2, <<8>>, {}, None, "c1", 1, 2),
      MkTask(3, <<2>>, {}, None, None, 1, 3),
      MkTask(4, <<4>>, {3}, None, "c1", 1, 4)>>

PassTaskSets ==
    {[i \in Rows |-> MkTask(i, dur[i], deps[i], crew[i][1], crew[i][2], day[i], i)] :
        dur \in [Rows -> Durations], deps \in ForwardDeps,
        crew \in [Rows -> PassProfiles], day \in PlannedDays}
    \cup {ScenarioTasks, AdmissionTasks}

InitPass ==
    /\ tasks \in PassTaskSets
    /\ pc = "baseline"
    /\ base_info = compute_cpm_baseline(tasks).info
    /\ inp = << >>
    /\ schedule = << >>
    /\ caps = << >>
    /\ curr_dur = days(0)
    /\ steps = 0
    /\ result = << >>
    /\ topo = << >>
    /\ pass = << >>

\* pool_by_category and capacity_by_category of the call
PassSettings ==
    {[pool_by_category |-> FALSE, capacity_by_category |-> << >>]} \cup
    {[pool_by_category |-> TRUE, capacity_by_category |-> cm] : cm \in CapacityMaps}

\* the call, up to the first iteration of "for t in order"
PassBegin ==
    /\ pc = "baseline"
    /\ \E setting \in PassSettings : inp' = setting
    /\ pass' = [order |-> sorted_order(tasks, base_info), i |-> 1,
                acc |-> [schedule |-> << >>, scheduled |-> << >>,
                         code_busy_until |-> << >>],
                phase |-> "for", start |-> 0, jumps |-> 0]
    /\ pc' = "leveling"
    /\ UNCHANGED <<tasks, base_info, schedule, sugg_vars, topo>>

\* the task of the iteration in progress
current_task == task_by_id(tasks, pass.order[pass.i])

\* the iteration goes through the pooled admission loop
enters_loop(t) == inp.pool_by_category /\ ~is_unconstrained(t)

\* an iteration without the admission loop: an unconstrained task, or
\* exclusive mode
ScheduleTask ==
    /\ pc = "leveling" /\ pass.phase = "for"
    /\ pass.i <= Len(pass.order)
    /\ ~enters_loop(current_task)
    /\ pass' = [pass EXCEPT
            !.acc = level_task(tasks, base_info, inp.pool_by_category,
                               inp.capacity_by_category, pass.acc,
                               pass.order[pass.i]),
            !.i = @ + 1]
    /\ UNCHANGED <<tasks, pc, base_info, inp, schedule, sugg_vars, topo>>

\* a pooled iteration up to the loop: start = est
AdmitBegin ==
    /\ pc = "leveling" /\ pass.phase = "for"
    /\ pass.i <= Len(pass.order)
    /\ enters_loop(current_task)
    /\ pass' = [pass EXCEPT
            !.phase = "while",
            !.start = dependency_ready(tasks, base_info, pass.acc.schedule,
                                       pass.order[pass.i]),
            !.jumps = 0]
    /\ UNCHANGED <<tasks, pc, base_info, inp, schedule, sugg_vars, topo>>

\* the loop test of the iteration in progress
loop_test ==
    must_wait(pass.acc.scheduled, category_of(current_task),
              capacity_of(inp.capacity_by_category, category_of(current_task)),
              duration_of(current_task), pass.start)

\* one pass through the body of the admission loop
AdmitJump ==
    /\ pc = "leveling" /\ pass.phase = "while"
    /\ loop_test
    /\ pass' = [pass EXCEPT
            !.start = next_candidate(pass.acc.scheduled,
                                     category_of(current_task), pass.start),
            !.jumps = @ + 1]
    /\ UNCHANGED <<tasks, pc, base_info, inp, schedule, sugg_vars, topo>>

\* the loop test fails: the task is admitted at start
AdmitEnd ==
    /\ pc = "leveling" /\ pass.phase = "while"
    /\ ~loop_test
    /\ pass' = [pass EXCEPT
            !.acc = record_entry(tasks, base_info, TRUE, pass.acc,
                                 pass.order[pass.i], pass.start),
            !.i = @ + 1,
            !.phase = "for", !.start = 0, !.jumps = 0]
    /\ UNCHANGED <<tasks, pc, base_info, inp, schedule, sugg_vars, topo>>

\* return schedule
PassEnd ==
    /\ pc = "leveling" /\ pass.phase = "for"
    /\ pass.i > Len(pass.order)
    /\ schedule' = pass.acc.schedule
    /\ pc' = "leveled"
    /\ UNCHANGED <<tasks, base_info, inp, sugg_vars, topo, pass>>

NextPass ==
    PassBegin \/ ScheduleTask \/ AdmitBegin \/ AdmitJump \/ AdmitEnd \/ PassEnd

SpecPass == InitPass /\ [][NextPass]_vars

(***************************************************************************)
(* Properties of the pass                                                  *)
(***************************************************************************)
Leveling == pc = "leveling"

\* the stepwise pass returns what level_resources returns
PassAgrees ==
    (pc = "leveled") =>
        schedule = level_resources(tasks, base_info, inp.pool_by_category,
                                   inp.capacity_by_category)

\* the tasks processed before position k of the order
ProcessedBefore(k) == {pass.order[j] : j \in 1..(k - 1)}

\* C16: for acyclic input, whenever the pass has processed a task one of
\* whose in-set dependencies was not yet scheduled (so that its baseline EF
\* was used), the dependency has the same baseline ES as the task; a
\* dependency with a strictly smaller baseline ES is scheduled before its
\* dependent.
C16_FallbackOnlyOnTies ==
    Leveling =>
        \A k \in 1..(pass.i - 1) :
            LET tid == pass.order[k] IN
            \A d \in InSetDeps(tid) :
                /\ d \notin ProcessedBefore(k) =>
                        base_info[d].es = base_info[tid].es
                /\ base_info[d].es < base_info[tid].es =>
                        d \in ProcessedBefore(k)

\* a pass that has scheduled a task at the baseline EF of a dependency still
\* to come, both with the same baseline ES, and another after its dependency
C16_Witness ==
    /\ Leveling
    /\ \E tid \in DOMAIN pass.acc.schedule :
        \E d \in InSetDeps(tid) :
            /\ d \notin DOMAIN pass.acc.schedule
            /\ base_info[d].es = base_info[tid].es
            /\ pass.acc.schedule[tid].start = base_info[d].ef
    /\ \E tid \in DOMAIN pass.acc.schedule :
        \E d \in InSetDeps(tid) :
            /\ d \in DOMAIN pass.acc.schedule
            /\ base_info[d].es < base_info[tid].es

\* C17: in exclusive mode the busy-until value of every resource identifier
\* (the one shared by the tasks without a crew code included) never
\* decreases over a pass.
C17_WatermarkMonotone ==
    [][(Leveling /\ ~inp.pool_by_category /\ pc' = "leveling") =>
        \A code \in DOMAIN pass.acc.code_busy_until :
            pass'.acc.code_busy_until[code] >= pass.acc.code_busy_until[code]
    ]_vars

\* the accepted intervals of a category active at the instant tp
ActiveAt(cat, tp) ==
    {j \in 1..Len(pass.acc.scheduled) :
        /\ pass.acc.scheduled[j].cat = cat
        /\ pass.acc.scheduled[j].start < tp
        /\ tp < pass.acc.scheduled[j].finish}

\* the pool a task draws on: its category, "UNSPEC" for a task that has a
\* crew code only
PoolOf(t) == IF t.crew_category = None THEN "UNSPEC" ELSE t.crew_category

\* C18: the pooled admission loop terminates for non-negative durations:
\* whenever the active count at the candidate is at least the capacity, some
\* accepted interval of the category finishes strictly after the candidate,
\* the candidate strictly increases in the iteration, and the number of jumps
\* never passes the number of intervals accepted before; otherwise the task
\* is admitted at the candidate.
C18_AdmissionLoop ==
    [][(Leveling /\ pass.phase = "while") =>
        LET t   == tasks[pass.order[pass.i]]
            cat == PoolOf(t)
            cap == Max2(1, dict_get(inp.capacity_by_category, cat, 1))
            dur == IF t.duration_hours = << >> THEN 0 ELSE t.duration_hours[1]
        IN /\ dur >= 0
           /\ IF dur > 0 /\ Cardinality(ActiveAt(cat, pass.start)) >= cap
              THEN /\ \E j \in 1..Len(pass.acc.scheduled) :
                        /\ pass.acc.scheduled[j].cat = cat
                        /\ pass.acc.scheduled[j].finish > pass.start
                   /\ pass'.phase = "while"
                   /\ pass'.start > pass.start
                   /\ pass'.jumps = pass.jumps + 1
                   /\ pass'.jumps <= Len(pass.acc.scheduled)
              ELSE /\ pass'.phase = "for"
                   /\ pass'.i = pass.i + 1
                   /\ pass'.acc.schedule[pass.order[pass.i]].start = pass.start
    ]_vars

\* a task about to be admitted after two jumps, past two intervals
C18_Witness ==
    /\ Leveling /\ pass.phase = "while"
    /\ pass.jumps = 2
    /\ Cardinality(ActiveAt(PoolOf(tasks[pass.order[pass.i]]), pass.start)) = 0
    /\ Len(pass.acc.scheduled) >= 2

====
